---- MODULE Spec2Model ----
(***************************************************************************)
(* Model of the chunked mapping script 1_csv_updates/9_code_optimized.py.  *)
(*                                                                         *)
(* Strings are sequences of one-character strings, so that concatenation,  *)
(* sanitization and prefix tests are computed character by character.      *)
(* The empty sequence stands for a blank cell (NaN or '' in pandas; both   *)
(* are an empty field in a CSV file).                                      *)
(***************************************************************************)
EXTENDS Integers, Sequences, FiniteSets, TLC

VARIABLES
    pc,                       \* position of the script
    raw_header,               \* column names of the main data file, as written in the file
    mapping_cols,             \* column names of the mapping table, as written in the file
    main_data,                \* data rows of the main data file (cells in header order)
    df_mapping,               \* rows of the mapping table (cells in column order)
    df_mapping_lookup,        \* composite_key / avg_value entries, in mapping order
    all_data_cols,            \* sanitized header columns
    amt_columns_header,       \* target columns found in the header
    id_column_data,           \* name the script uses for the identifier column
    chunks_read,              \* number of batches the reader has already handed out
    is_first_chunk,           \* header flag of the primary output
    is_first_unmapped_chunk,  \* header flag of the report
    out_exists, out_lines,    \* primary output file
    nans_exists, nans_lines,  \* unmapped report file
    batches,                  \* history: what happened to each batch the loop visited
    main_data_table,          \* SQL script: rows of the main data table
    unmapped_temp,            \* SQL script: rows of the temporary table of unmapped values
    col_i                     \* SQL script: number of target columns already updated

\* state of the SQL script alone
sql_vars == <<main_data_table, unmapped_temp, col_i>>

vars == <<pc, raw_header, mapping_cols, sql_vars, main_data, df_mapping, df_mapping_lookup, all_data_cols,
          amt_columns_header, id_column_data, chunks_read, is_first_chunk,
          is_first_unmapped_chunk, out_exists, out_lines, nans_exists, nans_lines,
          batches>>

----------------------------------------------------------------------------
(* Bounds of the model *)

\* rows handed out per batch (the script's value is 125000)
chunk_size == 2

\* largest number of data rows in the main data file
MaxRows == 3

\* largest number of rows in the mapping table
MaxMap == 2

----------------------------------------------------------------------------
(* Characters and strings *)

LowerLetters == <<"a","b","c","d","e","f","g","h","i","j","k","l","m",
                  "n","o","p","q","r","s","t","u","v","w","x","y","z">>

UpperLetters == <<"A","B","C","D","E","F","G","H","I","J","K","L","M",
                  "N","O","P","Q","R","S","T","U","V","W","X","Y","Z">>

Digits == {"0","1","2","3","4","5","6","7","8","9"}

Range(s) == {s[i] : i \in DOMAIN s}

\* the character class [0-9a-zA-Z_]
WordChars == Digits \cup Range(LowerLetters) \cup Range(UpperLetters) \cup {"_"}

\* str.lower() on one character
LowerChar(c) ==
    IF c \in Range(UpperLetters)
    THEN LowerLetters[CHOOSE i \in DOMAIN UpperLetters : UpperLetters[i] = c]
    ELSE c

\* str.lower()
Lower(s) == [i \in DOMAIN s |-> LowerChar(s[i])]

\* str.startswith(p)
StartsWith(s, p) == Len(s) >= Len(p) /\ SubSeq(s, 1, Len(p)) = p

\* str.replace('[^0-9a-zA-Z_]+', '_', regex=True): every maximal run of
\* characters outside the class becomes one underscore
RECURSIVE ReplaceRuns(_)
ReplaceRuns(s) ==
    IF s = <<>> THEN <<>>
    ELSE IF Head(s) \in WordChars THEN <<Head(s)>> \o ReplaceRuns(Tail(s))
    ELSE IF Len(s) >= 2 /\ s[2] \notin WordChars THEN ReplaceRuns(Tail(s))
    ELSE <<"_">> \o ReplaceRuns(Tail(s))

\* str.replace('__', '_', regex=False): one left-to-right pass over
\* non-overlapping occurrences of two underscores
RECURSIVE ReplaceDouble(_)
ReplaceDouble(s) ==
    IF Len(s) < 2 THEN s
    ELSE IF s[1] = "_" /\ s[2] = "_" THEN <<"_">> \o ReplaceDouble(Tail(Tail(s)))
    ELSE <<Head(s)>> \o ReplaceDouble(Tail(s))

\* str.strip('_')
RECURSIVE LStrip(_)
LStrip(s) == IF s # <<>> /\ Head(s) = "_" THEN LStrip(Tail(s)) ELSE s

RECURSIVE RStrip(_)
RStrip(s) ==
    IF s # <<>> /\ s[Len(s)] = "_" THEN RStrip(SubSeq(s, 1, Len(s) - 1)) ELSE s

Strip(s) == RStrip(LStrip(s))

\* the column-name cleaning applied to the header, to the identifier column
\* name and to every batch
Sanitize(s) == Strip(ReplaceDouble(ReplaceRuns(s)))

----------------------------------------------------------------------------
(* Column Resolver: header probe *)

ID_NAME == <<"i","d">>

HEAD_ID_NAME == <<"h","e","a","d","_","i","d">>

AMT_PREFIX == <<"a","m","t","_">>

\* cleaned_cols: the header's names, each sanitized once
CleanedCols(h) == [i \in DOMAIN h |-> Sanitize(h[i])]

\* amt_columns_header: columns whose lower-cased name starts with 'amt_'
AmtColumns(cols) == SelectSeq(cols, LAMBDA c : StartsWith(Lower(c), AMT_PREFIX))

\* 'id' if present, else 'head_id' if present, else the first column
PickIdColumn(cols) ==
    IF ID_NAME \in Range(cols) THEN ID_NAME
    ELSE IF HEAD_ID_NAME \in Range(cols) THEN HEAD_ID_NAME
    ELSE cols[1]

\* id_column_data: the picked name, cleaned a second time
IdColumn(cols) == Sanitize(PickIdColumn(cols))

\* position of a column name in a list of columns (0 when absent)
ColIndex(cols, name) ==
    IF name \in Range(cols) THEN CHOOSE i \in DOMAIN cols : cols[i] = name ELSE 0

----------------------------------------------------------------------------
(* Inputs *)

N_amt_x == <<"a","m","t","_","x">>

N_amt_y == <<"a","m","t","_","y">>

\* headers of the main data file: a target column whose name needs cleaning
\* with the identifier last, an identifier-less header whose first column
\* carries three underscores, and two target columns.  The cleaned names of a
\* header are distinct and the identifier column is never a target column.
Headers ==
    { << <<"n",".","m">>, <<"a","m","t"," ","x">>, ID_NAME >>,
      << <<"k","_","_","_","y">>, <<"A","M","T","_","x">> >>,
      << HEAD_ID_NAME, N_amt_x, N_amt_y >> }

IDs == { <<"7">>, <<"8">> }

Vals == { <<>>, <<"5">> }

Others == { <<"n">> }

\* values a cell of column i may take: identifiers in the identifier column
\* (one identifier only when the header has several target columns, so that
\* rows of a batch share it), blank or a category in a target column, a fixed
\* text elsewhere
CellVals(h, i) ==
    LET cols == CleanedCols(h) IN
    IF cols[i] = PickIdColumn(cols)
    THEN IF Len(AmtColumns(cols)) > 1 THEN { <<"7">> } ELSE IDs
    ELSE IF cols[i] \in Range(AmtColumns(cols)) THEN Vals
    ELSE Others

RowsOf(h) == { r \in [DOMAIN h -> IDs \cup Vals \cup Others] :
                 \A i \in DOMAIN h : r[i] \in CellVals(h, i) }

FilesOf(h) == UNION { [1..n -> RowsOf(h)] : n \in 0..MaxRows }

NaN == <<>>

\* rows of the mapping table by their three semantic cells: two rows with the
\* same sender code and category number, and a row whose average is blank
Entries ==
    { [sender |-> N_amt_x, cat |-> <<"5">>, avg |-> <<"9">>],
      [sender |-> N_amt_x, cat |-> <<"5">>, avg |-> <<"3">>],
      [sender |-> N_amt_y, cat |-> <<"5">>, avg |-> NaN] }

Mappings == UNION { [1..n -> Entries] : n \in 0..MaxMap }

\* a mapping row whose sender code extends a target column's name, and a cell
\* value that makes up the difference
CollisionEntry ==
    [sender |-> <<"a","m","t","_","x","_","y">>, cat |-> <<"5">>, avg |-> <<"9">>]

CollisionVal == <<"y","_","5">>

\* column names of the mapping table: the three semantic columns; no average
\* column; two average columns; one column that reads as sender code and as
\* category number
StdMapCols ==
    << <<"A","M","T"," ","S","E","N","F">>, <<"c","a","t","_","n","o">>,
       <<"a","v","g","_","v","a","l","u","e">> >>

MapHeaders ==
    { StdMapCols,
      << <<"a","m","t","_","s","e","n","f">>, <<"c","a","t","n","o">>,
         <<"v","a","l","u","e">> >>,
      << <<"a","m","t","s","e","n","f">>, <<"c","a","t","_","n","o">>,
         <<"a","v","g","_","a">>, <<"a","v","g","_","b">> >>,
      << <<"a","m","t","s","e","n","f","_","c","a","t","_","n","o">>,
         <<"a","v","g">> >> }

\* the cells of a mapping row in a table of n columns
EntryRow(e, n) ==
    IF n = 2 THEN << e.sender, e.avg >>
    ELSE IF n = 3 THEN << e.sender, e.cat, e.avg >>
    ELSE << e.sender, e.cat, e.avg, <<"1">> >>

TableOf(m, mcols) == [i \in DOMAIN m |-> EntryRow(m[i], Len(mcols))]

\* The inputs of a run are every main data file and mapping table within the
\* bounds under the three semantic mapping columns, and, with at most one row
\* in each file, every mapping header, the colliding mapping row and the
\* colliding cell value.

\* as CellVals, with the colliding value among the target cells' values
WideCellVals(h, i) ==
    IF CellVals(h, i) = Vals THEN Vals \cup { CollisionVal } ELSE CellVals(h, i)

WideRowsOf(h) == { r \in [DOMAIN h -> IDs \cup Vals \cup Others \cup { CollisionVal }] :
                     \A i \in DOMAIN h : r[i] \in WideCellVals(h, i) }

ShortFilesOf(h) == UNION { [1..n -> WideRowsOf(h)] : n \in 0..1 }

ShortMappings == UNION { [1..n -> Entries \cup { CollisionEntry }] : n \in 0..1 }

----------------------------------------------------------------------------
(* Step 1: mapping lookup *)

S_amtsenf == <<"a","m","t","s","e","n","f">>

S_catno == <<"c","a","t","n","o">>

S_cat_no == <<"c","a","t","_","n","o">>

S_avg == <<"a","v","g">>

\* str.replace('_', '')
RemoveUnderscores(s) == SelectSeq(s, LAMBDA c : c # "_")

\* sub in s
Contains(s, sub) ==
    \E k \in 0..(Len(s) - Len(sub)) : SubSeq(s, k + 1, k + Len(sub)) = sub

\* the tests that pick the three semantic columns
IsAmtSenf(col) ==
    RemoveUnderscores(Lower(col)) = S_amtsenf \/ Contains(Lower(col), S_amtsenf)

IsCatNo(col) ==
    RemoveUnderscores(Lower(col)) = S_catno \/ Contains(Lower(col), S_cat_no)

IsAvg(col) == Contains(Lower(col), S_avg)

\* what next(..., None) yields when no column passes the test
NoColumn == <<>>

\* a pick that takes the last of the columns passing the test
LastOrNone(matches) == IF matches = <<>> THEN NoColumn ELSE matches[Len(matches)]

\* next((col for col in mapping_cols if ...), None), on the columns passing
\* the test in table order: the first of them, None when there is none
NextOrNone(matches) == IF matches = <<>> THEN NoColumn ELSE Head(matches)

\* mapping_cols: the mapping table's column names, cleaned
MappingCols(mcols) == [i \in DOMAIN mcols |-> Sanitize(mcols[i])]

amt_senf_col_mapping(mcols) ==
    NextOrNone(SelectSeq(MappingCols(mcols), IsAmtSenf))

cat_no_col_mapping(mcols) ==
    NextOrNone(SelectSeq(MappingCols(mcols), IsCatNo))

avg_value_col_mapping(mcols) ==
    NextOrNone(SelectSeq(MappingCols(mcols), IsAvg))

\* the three picks for each mapping header of the inputs, computed once:
\* the picked names and their positions among the cleaned columns
ResolvedCols ==
    [mc \in MapHeaders |->
        [amt_senf |-> amt_senf_col_mapping(mc),
         cat_no |-> cat_no_col_mapping(mc),
         avg_value |-> avg_value_col_mapping(mc),
         amt_senf_at |-> ColIndex(MappingCols(mc), amt_senf_col_mapping(mc)),
         cat_no_at |-> ColIndex(MappingCols(mc), cat_no_col_mapping(mc)),
         avg_value_at |-> ColIndex(MappingCols(mc), avg_value_col_mapping(mc))]]

\* all([amt_senf_col_mapping, cat_no_col_mapping, avg_value_col_mapping])
AllResolved(mcols) ==
    /\ ResolvedCols[mcols].amt_senf # NoColumn
    /\ ResolvedCols[mcols].cat_no # NoColumn
    /\ ResolvedCols[mcols].avg_value # NoColumn

\* the three semantic cells of every mapping row
ResolvedRows(mcols, rows) ==
    [i \in DOMAIN rows |->
        [sender |-> rows[i][ResolvedCols[mcols].amt_senf_at],
         cat |-> rows[i][ResolvedCols[mcols].cat_no_at],
         avg |-> rows[i][ResolvedCols[mcols].avg_value_at]]]

\* composite_key of a mapping row: sender code + '_' + category number
MappingKey(sender, cat) == sender \o <<"_">> \o cat

\* df_mapping_lookup: one (composite_key, avg_value) entry per mapping row,
\* duplicates kept
BuildLookup(m) ==
    [i \in DOMAIN m |-> [composite_key |-> MappingKey(m[i].sender, m[i].cat),
                         avg_value |-> m[i].avg]]

Init ==
    /\ pc = "step1"
    /\ raw_header \in Headers
    /\ \/ /\ main_data \in FilesOf(raw_header)
          /\ mapping_cols = StdMapCols
          /\ \E m \in Mappings : df_mapping = TableOf(m, mapping_cols)
       \/ /\ main_data \in ShortFilesOf(raw_header)
          /\ mapping_cols \in MapHeaders
          /\ \E m \in ShortMappings : df_mapping = TableOf(m, mapping_cols)
    /\ df_mapping_lookup = <<>>
    /\ all_data_cols = <<>>
    /\ amt_columns_header = <<>>
    /\ id_column_data = <<>>
    /\ chunks_read = 0
    /\ is_first_chunk = TRUE
    /\ is_first_unmapped_chunk = TRUE
    /\ out_exists = FALSE
    /\ out_lines = <<>>
    /\ nans_exists = FALSE
    /\ nans_lines = <<>>
    /\ batches = <<>>
    /\ main_data_table = <<>>
    /\ unmapped_temp = <<>>
    /\ col_i = 0

\* a semantic column is not found: ValueError, re-raised, the run stops
LoadMappingFails ==
    /\ pc = "step1"
    /\ ~AllResolved(mapping_cols)
    /\ pc' = "config_error"
    /\ UNCHANGED <<raw_header, mapping_cols, sql_vars, main_data, df_mapping, df_mapping_lookup,
                   all_data_cols, amt_columns_header, id_column_data, chunks_read,
                   is_first_chunk, is_first_unmapped_chunk, out_exists, out_lines,
                   nans_exists, nans_lines, batches>>

LoadMapping ==
    /\ pc = "step1"
    /\ AllResolved(mapping_cols)
    /\ df_mapping_lookup' = BuildLookup(ResolvedRows(mapping_cols, df_mapping))
    /\ pc' = "probe"
    /\ UNCHANGED <<raw_header, mapping_cols, sql_vars, main_data, df_mapping, all_data_cols, amt_columns_header,
                   id_column_data, chunks_read, is_first_chunk, is_first_unmapped_chunk,
                   out_exists, out_lines, nans_exists, nans_lines, batches>>

HeaderProbe ==
    /\ pc = "probe"
    /\ all_data_cols' = CleanedCols(raw_header)
    /\ amt_columns_header' = AmtColumns(CleanedCols(raw_header))
    /\ id_column_data' = IdColumn(CleanedCols(raw_header))
    /\ pc' = "loop"
    /\ UNCHANGED <<raw_header, mapping_cols, sql_vars, main_data, df_mapping, df_mapping_lookup, chunks_read,
                   is_first_chunk, is_first_unmapped_chunk, out_exists, out_lines,
                   nans_exists, nans_lines, batches>>

----------------------------------------------------------------------------
(* Chunked Reader *)

Min(a, b) == IF a <= b THEN a ELSE b

\* number of batches csv_reader yields: a file without data rows still yields
\* one batch, with the header's columns and no rows
NumChunks(file) ==
    IF Len(file) = 0 THEN 1 ELSE (Len(file) + chunk_size - 1) \div chunk_size

\* rows of the k-th batch
ChunkRows(file, k) ==
    SubSeq(file, (k - 1) * chunk_size + 1, Min(k * chunk_size, Len(file)))

----------------------------------------------------------------------------
(* Join/Transform Engine: one target column of one batch *)

\* a blank test that matches no row
BlankEntriesNone(df, j) == {}

\* blank_entries: rows whose cell in column j is NaN or ''
BlankEntries(df, j) == { r \in DOMAIN df : df[r][j] = <<>> }

\* the blank rows are not filtered out before the lookup
CleanIndexAll(df, j) == [r \in DOMAIN df |-> r]

\* index of temp_df_col_clean: the other rows, in batch order
CleanIndex(df, j) == SelectSeq([r \in DOMAIN df |-> r], LAMBDA r : df[r][j] # <<>>)

\* a key built without the separator
DataKeyNoSeparator(col_name, value) == col_name \o value

\* composite_key of a cell: column name + '_' + value
DataKey(col_name, value) == col_name \o <<"_">> \o value

\* pd.merge(..., how='left') for one row of the left side: one merged row per
\* lookup entry with the row's key, in lookup order, or one row with a NaN
\* avg_value when no entry has the key
MergeRow(r, key, lookup) ==
    LET m == SelectSeq(lookup, LAMBDA e : e.composite_key = key) IN
    IF m = <<>>
    THEN << [row |-> r, avg_value |-> NaN, matched |-> FALSE] >>
    ELSE [k \in DOMAIN m |-> [row |-> r, avg_value |-> m[k].avg_value, matched |-> TRUE]]

\* merged_df: the merged rows of all rows of temp_df_col_clean, in their order
RECURSIVE Merge(_, _, _, _, _)
Merge(clean_index, df, j, col_name, lookup) ==
    IF clean_index = <<>> THEN <<>>
    ELSE MergeRow(Head(clean_index), DataKey(col_name, df[Head(clean_index)][j]), lookup)
         \o Merge(Tail(clean_index), df, j, col_name, lookup)

\* body of "for col_name in amt_columns_chunk"; st.error is set when the
\* assignment of the mapped values raises
ProcessColumn(st, col_name, cols, idname, lookup) ==
    LET df == st.df
        j == ColIndex(cols, col_name)
        idj == ColIndex(cols, idname)
        blank_entries == BlankEntries(df, j)
        clean_index == CleanIndex(df, j)
        merged_df == Merge(clean_index, df, j, col_name, lookup)
        lookup_fail == { k \in DOMAIN merged_df : merged_df[k].avg_value = NaN }
        with_blank == [st EXCEPT !.unmapped = @ \cup { df[r][idj] : r \in blank_entries },
                                 !.blank_cells = @ \cup { <<r, col_name>> : r \in blank_entries }]
    IN  IF st.error THEN st
        ELSE IF clean_index = <<>> THEN with_blank
        ELSE IF Len(merged_df) # Len(clean_index) THEN [with_blank EXCEPT !.error = TRUE]
        ELSE [with_blank EXCEPT
                !.unmapped = @ \cup { df[merged_df[k].row][idj] : k \in lookup_fail },
                !.fail_cells = @ \cup { <<merged_df[k].row, col_name>> : k \in lookup_fail },
                !.hit_cells = @ \cup { <<merged_df[k].row, col_name>> :
                                         k \in { n \in DOMAIN merged_df : merged_df[n].matched } },
                !.df = [r \in DOMAIN df |->
                          IF \E k \in DOMAIN clean_index : clean_index[k] = r
                          THEN [df[r] EXCEPT ![j] =
                                  merged_df[CHOOSE k \in DOMAIN clean_index :
                                              clean_index[k] = r].avg_value]
                          ELSE df[r]]]

RECURSIVE ProcessColumns(_, _, _, _, _)
ProcessColumns(st, amt_cols, cols, idname, lookup) ==
    IF amt_cols = <<>> THEN st
    ELSE ProcessColumns(ProcessColumn(st, Head(amt_cols), cols, idname, lookup),
                        Tail(amt_cols), cols, idname, lookup)

\* the batch after the loop over its target columns
ProcessChunkDf(rows, cols, amt_header, idname, lookup) ==
    ProcessColumns([df |-> rows, unmapped |-> {}, error |-> FALSE,
                    blank_cells |-> {}, fail_cells |-> {}, hit_cells |-> {}],
                   SelectSeq(amt_header, LAMBDA c : c \in Range(cols)),
                   cols, idname, lookup)

----------------------------------------------------------------------------
(* Incremental Writer *)

HeaderLine(cols) == [header |-> TRUE, cells |-> cols]

DataLine(cells) == [header |-> FALSE, cells |-> cells]

\* the columns are written in the order they were read
OutputOrderAsRead(cols, idname) == [i \in DOMAIN cols |-> i]

\* column positions in output order: the identifier column first
OutputOrder(cols, idname) ==
    IF idname \in Range(cols) /\ cols[1] # idname
    THEN << ColIndex(cols, idname) >>
         \o SelectSeq([i \in DOMAIN cols |-> i], LAMBDA i : cols[i] # idname)
    ELSE [i \in DOMAIN cols |-> i]

Reorder(cells, order) == [k \in DOMAIN order |-> cells[order[k]]]

\* list(unmapped_row_ids_in_chunk): the set's elements in some order
Orderings(S) == { q \in [1..Cardinality(S) -> S] : Range(q) = S }

\* every write appends a header line and the data lines
ToCsvAlwaysHeader(old_lines, first, cols, rows) ==
    old_lines \o << HeaderLine(cols) >> \o [k \in DOMAIN rows |-> DataLine(rows[k])]

\* every write after the first replaces the file by the data lines
ToCsvOverwrite(old_lines, first, cols, rows) ==
    IF first
    THEN << HeaderLine(cols) >> \o [k \in DOMAIN rows |-> DataLine(rows[k])]
    ELSE << old_lines[1] >> \o [k \in DOMAIN rows |-> DataLine(rows[k])]

\* DataFrame.to_csv: mode 'w' with the header replaces the file, mode 'a'
\* appends the data lines only
ToCsv(old_lines, first, cols, rows) ==
    IF first
    THEN << HeaderLine(cols) >> \o [k \in DOMAIN rows |-> DataLine(rows[k])]
    ELSE old_lines \o [k \in DOMAIN rows |-> DataLine(rows[k])]

----------------------------------------------------------------------------
(* Step 3: the loop over the batches *)

HasNext == chunks_read < NumChunks(main_data)

CurrentRows == ChunkRows(main_data, chunks_read + 1)

\* the cleaned column names of each header of the inputs, computed once
CleanedHeaders == [h \in Headers |-> CleanedCols(h)]

\* chunk_df.columns after cleaning
ChunkCols == CleanedHeaders[raw_header]

\* a batch without the identifier column stops the run
SkipChunkRaise ==
    /\ pc = "loop"
    /\ HasNext
    /\ id_column_data \notin Range(ChunkCols)
    /\ pc' = "aborted"
    /\ UNCHANGED <<raw_header, mapping_cols, sql_vars, main_data, df_mapping, df_mapping_lookup, all_data_cols,
                   amt_columns_header, id_column_data, chunks_read, is_first_chunk,
                   is_first_unmapped_chunk, out_exists, out_lines, nans_exists, nans_lines,
                   batches>>

\* the identifier column is not among the batch's columns: the batch is skipped
SkipChunk ==
    /\ pc = "loop"
    /\ HasNext
    /\ id_column_data \notin Range(ChunkCols)
    /\ chunks_read' = chunks_read + 1
    /\ batches' = Append(batches,
                    [rows |-> CurrentRows, status |-> "skipped", cols |-> ChunkCols,
                     out_from |-> 0, nans_from |-> 0, nans_count |-> 0,
                     blank_cells |-> {}, fail_cells |-> {}, hit_cells |-> {}])
    /\ UNCHANGED <<pc, raw_header, mapping_cols, sql_vars, main_data, df_mapping, df_mapping_lookup, all_data_cols,
                   amt_columns_header, id_column_data, is_first_chunk,
                   is_first_unmapped_chunk, out_exists, out_lines, nans_exists, nans_lines>>

\* the mapped values do not fit the rows they are assigned to: ValueError,
\* re-raised by the handler around the loop
AbortChunk ==
    /\ pc = "loop"
    /\ HasNext
    /\ id_column_data \in Range(ChunkCols)
    /\ ProcessChunkDf(CurrentRows, ChunkCols, amt_columns_header, id_column_data,
                      df_mapping_lookup).error
    /\ pc' = "aborted"
    /\ chunks_read' = chunks_read + 1
    /\ UNCHANGED <<raw_header, mapping_cols, sql_vars, main_data, df_mapping, df_mapping_lookup, all_data_cols,
                   amt_columns_header, id_column_data, is_first_chunk,
                   is_first_unmapped_chunk, out_exists, out_lines, nans_exists, nans_lines,
                   batches>>

ProcessChunk ==
    /\ pc = "loop"
    /\ HasNext
    /\ id_column_data \in Range(ChunkCols)
    /\ LET st == ProcessChunkDf(CurrentRows, ChunkCols, amt_columns_header,
                                id_column_data, df_mapping_lookup)
           order == OutputOrder(ChunkCols, id_column_data)
           out_rows == [k \in DOMAIN st.df |-> Reorder(st.df[k], order)]
       IN  /\ ~st.error
           /\ \E ids \in Orderings(st.unmapped) :
                /\ IF st.unmapped # {}
                   THEN /\ nans_lines' = ToCsv(nans_lines, is_first_unmapped_chunk,
                                               << id_column_data >>,
                                               [k \in DOMAIN ids |-> << ids[k] >>])
                        /\ nans_exists' = TRUE
                        /\ is_first_unmapped_chunk' = FALSE
                   ELSE UNCHANGED <<nans_lines, nans_exists, is_first_unmapped_chunk>>
                /\ batches' = Append(batches,
                     [rows |-> CurrentRows, status |-> "written", cols |-> ChunkCols,
                      out_from |-> IF is_first_chunk THEN 2 ELSE Len(out_lines) + 1,
                      nans_from |-> IF st.unmapped = {} THEN 0
                                    ELSE IF is_first_unmapped_chunk THEN 2
                                    ELSE Len(nans_lines) + 1,
                      nans_count |-> Len(ids),
                      blank_cells |-> st.blank_cells, fail_cells |-> st.fail_cells,
                      hit_cells |-> st.hit_cells])
           /\ out_lines' = ToCsv(out_lines, is_first_chunk, Reorder(ChunkCols, order), out_rows)
           /\ out_exists' = TRUE
           /\ is_first_chunk' = FALSE
    /\ chunks_read' = chunks_read + 1
    /\ UNCHANGED <<pc, raw_header, mapping_cols, sql_vars, main_data, df_mapping, df_mapping_lookup, all_data_cols,
                   amt_columns_header, id_column_data>>

\* the run ends without the final creation of the report
FinishNoReport ==
    /\ pc = "loop"
    /\ ~HasNext
    /\ pc' = "done"
    /\ UNCHANGED <<raw_header, mapping_cols, sql_vars, main_data, df_mapping, df_mapping_lookup, all_data_cols,
                   amt_columns_header, id_column_data, chunks_read, is_first_chunk,
                   is_first_unmapped_chunk, out_exists, out_lines, nans_exists, nans_lines,
                   batches>>

\* the loop is exhausted; the report is created with its header alone when no
\* batch wrote to it
Finish ==
    /\ pc = "loop"
    /\ ~HasNext
    /\ IF is_first_unmapped_chunk
       THEN /\ nans_lines' = ToCsv(nans_lines, TRUE, << id_column_data >>, <<>>)
            /\ nans_exists' = TRUE
       ELSE UNCHANGED <<nans_lines, nans_exists>>
    /\ pc' = "done"
    /\ UNCHANGED <<raw_header, mapping_cols, sql_vars, main_data, df_mapping, df_mapping_lookup, all_data_cols,
                   amt_columns_header, id_column_data, chunks_read, is_first_chunk,
                   is_first_unmapped_chunk, out_exists, out_lines, batches>>

Next ==
    \/ LoadMapping
    \/ LoadMappingFails
    \/ HeaderProbe
    \/ SkipChunk
    \/ AbortChunk
    \/ ProcessChunk
    \/ Finish

Spec == Init /\ [][Next]_vars

----------------------------------------------------------------------------
(* The SQL-table-driven script.  Its tables are main_data_table (the rows
   imported from the main data file, under the columns all_data_cols),
   mapping_midtable (held in df_mapping_lookup) and temp_unmapped_values
   (unmapped_temp).  NULL is the empty sequence.  Its import reads batches of
   chunk_size rows. *)

\* state of the chunked script's loop that this script does not have
chunk_vars == <<is_first_chunk, is_first_unmapped_chunk, batches>>

ORIGINAL_ID == <<"o","r","i","g","i","n","a","l","_","i","d">>

ORIGINAL_VALUE == <<"o","r","i","g","i","n","a","l","_","v","a","l","u","e">>

COLUMN_NAME == <<"c","o","l","u","m","n","_","n","a","m","e">>

NULL == <<>>

InitSql ==
    /\ pc = "sql_step1"
    /\ raw_header \in Headers
    /\ \/ /\ main_data \in FilesOf(raw_header)
          /\ mapping_cols = StdMapCols
          /\ \E m \in ShortMappings : df_mapping = TableOf(m, mapping_cols)
       \/ /\ main_data \in ShortFilesOf(raw_header)
          /\ mapping_cols \in MapHeaders
          /\ \E m \in Mappings \cup ShortMappings : df_mapping = TableOf(m, mapping_cols)
    /\ df_mapping_lookup = <<>>
    /\ all_data_cols = <<>>
    /\ amt_columns_header = <<>>
    /\ id_column_data = <<>>
    /\ chunks_read = 0
    /\ is_first_chunk = TRUE
    /\ is_first_unmapped_chunk = TRUE
    /\ out_exists = FALSE
    /\ out_lines = <<>>
    /\ nans_exists = FALSE
    /\ nans_lines = <<>>
    /\ batches = <<>>
    /\ main_data_table = <<>>
    /\ unmapped_temp = <<>>
    /\ col_i = 0

\* Step 1, a semantic column is not found: ValueError, re-raised
SqlLoadMappingFails ==
    /\ pc = "sql_step1"
    /\ ~AllResolved(mapping_cols)
    /\ pc' = "sql_config_error"
    /\ UNCHANGED <<raw_header, mapping_cols, sql_vars, chunk_vars, main_data, df_mapping,
                   df_mapping_lookup, all_data_cols, amt_columns_header, id_column_data,
                   chunks_read, out_exists, out_lines, nans_exists, nans_lines>>

\* Step 1: mapping_midtable holds one (composite_key, avg_value) row per
\* mapping row
SqlLoadMapping ==
    /\ pc = "sql_step1"
    /\ AllResolved(mapping_cols)
    /\ df_mapping_lookup' = BuildLookup(ResolvedRows(mapping_cols, df_mapping))
    /\ pc' = "sql_step2"
    /\ UNCHANGED <<raw_header, mapping_cols, sql_vars, chunk_vars, main_data, df_mapping,
                   all_data_cols, amt_columns_header, id_column_data, chunks_read,
                   out_exists, out_lines, nans_exists, nans_lines>>

\* Step 2, one batch: its columns are cleaned and its rows appended to
\* main_data_table, which takes its columns from the first batch
SqlImportChunk ==
    /\ pc = "sql_step2"
    /\ HasNext
    /\ all_data_cols' = ChunkCols
    /\ main_data_table' = main_data_table \o CurrentRows
    /\ chunks_read' = chunks_read + 1
    /\ UNCHANGED <<pc, raw_header, mapping_cols, unmapped_temp, col_i, chunk_vars, main_data,
                   df_mapping, df_mapping_lookup, amt_columns_header, id_column_data,
                   out_exists, out_lines, nans_exists, nans_lines>>

\* Step 3, after the last batch: amt_columns and id_column_data from the
\* table's columns; the picked identifier name is not cleaned again
SqlIdentifyColumns ==
    /\ pc = "sql_step2"
    /\ ~HasNext
    /\ amt_columns_header' = AmtColumns(all_data_cols)
    /\ id_column_data' = PickIdColumn(all_data_cols)
    /\ col_i' = 0
    /\ pc' = "sql_step4"
    /\ UNCHANGED <<raw_header, mapping_cols, main_data_table, unmapped_temp, chunk_vars,
                   main_data, df_mapping, df_mapping_lookup, all_data_cols, chunks_read,
                   out_exists, out_lines, nans_exists, nans_lines>>

\* the key of the two statements: '{col_name}' || '_' || "{col_name}"
SqlKey(col_name, value) == col_name \o <<"_">> \o value

\* EXISTS (SELECT 1 FROM mapping_midtable WHERE key = composite_key); a NULL
\* cell has a NULL key, which equals no composite_key
SqlExists(col_name, value, lookup) ==
    /\ value # NULL
    /\ \E i \in DOMAIN lookup : lookup[i].composite_key = SqlKey(col_name, value)

\* (SELECT mm.avg_value FROM mapping_midtable AS mm WHERE key =
\* mm.composite_key) as a value: the first row of the result
SqlScalar(col_name, value, lookup) ==
    Head(SelectSeq(lookup, LAMBDA e : e.composite_key = SqlKey(col_name, value))).avg_value

\* update_sql: the cells whose key has a row in mapping_midtable are set to
\* its avg_value, the other cells are not touched
UpdateSql(table, j, col_name, lookup) ==
    [r \in DOMAIN table |->
        IF SqlExists(col_name, table[r][j], lookup)
        THEN [table[r] EXCEPT ![j] = SqlScalar(col_name, table[r][j], lookup)]
        ELSE table[r]]

\* insert_unmapped_sql: (identifier, value, column name) of every row whose
\* cell is neither NULL nor '' and whose key has no row in mapping_midtable
InsertUnmappedSql(table, j, idj, col_name, lookup) ==
    LET sel == SelectSeq([r \in DOMAIN table |-> r],
                         LAMBDA r : table[r][j] # NULL
                                    /\ ~SqlExists(col_name, table[r][j], lookup))
    IN  [k \in DOMAIN sel |-> << table[sel[k]][idj], table[sel[k]][j], col_name >>]

\* Step 4, one target column: the unmapped values are stored, then the column
\* is updated
SqlUpdateColumn ==
    /\ pc = "sql_step4"
    /\ col_i < Len(amt_columns_header)
    /\ LET col_name == amt_columns_header[col_i + 1]
           j == ColIndex(all_data_cols, col_name)
           idj == ColIndex(all_data_cols, id_column_data)
       IN  /\ unmapped_temp' = unmapped_temp
                 \o InsertUnmappedSql(main_data_table, j, idj, col_name, df_mapping_lookup)
           /\ main_data_table' = UpdateSql(main_data_table, j, col_name, df_mapping_lookup)
    /\ col_i' = col_i + 1
    /\ UNCHANGED <<pc, raw_header, mapping_cols, chunk_vars, main_data, df_mapping,
                   df_mapping_lookup, all_data_cols, amt_columns_header, id_column_data,
                   chunks_read, out_exists, out_lines, nans_exists, nans_lines>>

\* df_final_data.columns: a column named original_id takes the identifier
\* column's name
ExportCols(cols, idname) ==
    [i \in DOMAIN cols |->
        IF cols[i] = ORIGINAL_ID /\ idname # ORIGINAL_ID THEN idname ELSE cols[i]]

\* Step 5, after the last target column: the table is written to the primary
\* output, header and rows
SqlExport ==
    /\ pc = "sql_step4"
    /\ col_i = Len(amt_columns_header)
    /\ out_lines' = ToCsv(<<>>, TRUE, ExportCols(all_data_cols, id_column_data),
                          main_data_table)
    /\ out_exists' = TRUE
    /\ pc' = "sql_step6"
    /\ UNCHANGED <<raw_header, mapping_cols, sql_vars, chunk_vars, main_data, df_mapping,
                   df_mapping_lookup, all_data_cols, amt_columns_header, id_column_data,
                   chunks_read, nans_exists, nans_lines>>

\* Step 6: the stored unmapped values are written to the report when there
\* are some.  Without target columns temp_unmapped_values was never created
\* and the failing read is passed over.
SqlExportUnmapped ==
    /\ pc = "sql_step6"
    /\ IF amt_columns_header # <<>> /\ unmapped_temp # <<>>
       THEN /\ nans_lines' = ToCsv(<<>>, TRUE, << ORIGINAL_ID, ORIGINAL_VALUE, COLUMN_NAME >>,
                                   unmapped_temp)
            /\ nans_exists' = TRUE
       ELSE UNCHANGED <<nans_lines, nans_exists>>
    /\ pc' = "sql_cleanup"
    /\ UNCHANGED <<raw_header, mapping_cols, sql_vars, chunk_vars, main_data, df_mapping,
                   df_mapping_lookup, all_data_cols, amt_columns_header, id_column_data,
                   chunks_read, out_exists, out_lines>>

\* the three tables are dropped and the connection is closed
SqlCleanup ==
    /\ pc = "sql_cleanup"
    /\ main_data_table' = <<>>
    /\ unmapped_temp' = <<>>
    /\ df_mapping_lookup' = <<>>
    /\ pc' = "sql_done"
    /\ UNCHANGED <<raw_header, mapping_cols, col_i, chunk_vars, main_data, df_mapping,
                   all_data_cols, amt_columns_header, id_column_data, chunks_read,
                   out_exists, out_lines, nans_exists, nans_lines>>

NextSql ==
    \/ SqlLoadMappingFails
    \/ SqlLoadMapping
    \/ SqlImportChunk
    \/ SqlIdentifyColumns
    \/ SqlUpdateColumn
    \/ SqlExport
    \/ SqlExportUnmapped
    \/ SqlCleanup

SpecSql == InitSql /\ [][NextSql]_vars

----------------------------------------------------------------------------
(* Reading the files and the history *)

Written == { b \in DOMAIN batches : batches[b].status = "written" }

Skipped == { b \in DOMAIN batches : batches[b].status = "skipped" }

\* target columns of batch b
TargetsOf(b) == { c \in Range(amt_columns_header) : c \in Range(batches[b].cols) }

\* cell of row r of batch b in column c, as read from the main data file
InCell(b, r, c) == batches[b].rows[r][ColIndex(batches[b].cols, c)]

\* the same cell, as found in the primary output under the header's column c
OutCell(b, r, c) ==
    out_lines[batches[b].out_from + r - 1].cells[ColIndex(out_lines[1].cells, c)]

RowId(b, r) == InCell(b, r, id_column_data)

\* identifiers the batch appended to the report, in file order
ReportIds(b) ==
    [k \in 1..batches[b].nans_count |-> nans_lines[batches[b].nans_from + k - 1].cells[1]]

\* average values of the lookup entries with a key
AvgsOf(key) ==
    { df_mapping_lookup[i].avg_value :
        i \in { n \in DOMAIN df_mapping_lookup : df_mapping_lookup[n].composite_key = key } }

\* the key the claims speak of: target column name + "_" + cell value
ClaimKey(c, v) == c \o <<"_">> \o v

\* all target cells of the written batches
TargetCells ==
    { <<b, r, c>> \in Written \X (1..chunk_size) \X Range(amt_columns_header) :
        r \in DOMAIN batches[b].rows /\ c \in TargetsOf(b) }

RECURSIVE SumOf(_, _)
SumOf(f, S) == IF S = {} THEN 0
               ELSE LET x == CHOOSE y \in S : TRUE IN f[x] + SumOf(f, S \ {x})

HeaderFirstOnly(lines) ==
    /\ lines # <<>>
    /\ lines[1].header
    /\ \A k \in 2..Len(lines) : ~lines[k].header

HasDuplicateKey ==
    \E i, k \in DOMAIN df_mapping_lookup :
        i # k /\ df_mapping_lookup[i].composite_key = df_mapping_lookup[k].composite_key

----------------------------------------------------------------------------
(* The claims *)

\* C1: in every written batch, a non-blank target cell has the key
\* column name + "_" + value; when the lookup index has the key the output cell
\* is the key's average value, and when it has not the output cell is empty
\* and the row's identifier is among the identifiers the batch appended to the
\* report.
C1_HitOrMiss ==
    \A t \in TargetCells :
        LET v == InCell(t[1], t[2], t[3])
            key == ClaimKey(t[3], v)
        IN  v # <<>> =>
              IF AvgsOf(key) # {}
              THEN AvgsOf(key) = { OutCell(t[1], t[2], t[3]) }
              ELSE /\ OutCell(t[1], t[2], t[3]) = <<>>
                   /\ RowId(t[1], t[2]) \in Range(ReportIds(t[1]))

\* a written batch holds a cell that hit a non-blank average and a cell that missed
C1_Witness ==
    /\ \E t \in TargetCells :
          /\ InCell(t[1], t[2], t[3]) # <<>>
          /\ AvgsOf(ClaimKey(t[3], InCell(t[1], t[2], t[3]))) # {}
          /\ OutCell(t[1], t[2], t[3]) # <<>>
    /\ \E t \in TargetCells :
          /\ InCell(t[1], t[2], t[3]) # <<>>
          /\ AvgsOf(ClaimKey(t[3], InCell(t[1], t[2], t[3]))) = {}

\* C2: in every written batch, a blank target cell has its row's identifier
\* among the identifiers the batch appended to the report, is still empty in
\* the primary output, and never went through the lookup (no merged row was
\* built for it).
C2_BlankCell ==
    \A t \in TargetCells :
        InCell(t[1], t[2], t[3]) = <<>> =>
            /\ RowId(t[1], t[2]) \in Range(ReportIds(t[1]))
            /\ OutCell(t[1], t[2], t[3]) = <<>>
            /\ <<t[2], t[3]>> \notin batches[t[1]].hit_cells \cup batches[t[1]].fail_cells

\* a written batch holds a blank target cell next to a non-blank cell of the
\* same column, so that the lookup ran for the column
C2_Witness ==
    \E t \in TargetCells :
        /\ InCell(t[1], t[2], t[3]) = <<>>
        /\ \E u \in TargetCells :
              u[1] = t[1] /\ u[3] = t[3] /\ InCell(u[1], u[2], u[3]) # <<>>

\* C3: for every written batch, the identifiers it appended to the report
\* are exactly the identifiers of its rows with a target cell that is blank or
\* whose key is not in the lookup index, each written once.
C3_ReportExact ==
    \A b \in Written :
        /\ Range(ReportIds(b)) =
              { RowId(b, r) : r \in { n \in DOMAIN batches[b].rows :
                  \E c \in TargetsOf(b) :
                      \/ InCell(b, n, c) = <<>>
                      \/ AvgsOf(ClaimKey(c, InCell(b, n, c))) = {} } }
        /\ Len(ReportIds(b)) = Cardinality(Range(ReportIds(b)))

\* the three outcomes of a target cell
Substituted(b, r, c) ==
    /\ InCell(b, r, c) # <<>>
    /\ OutCell(b, r, c) # <<>>
    /\ OutCell(b, r, c) \in AvgsOf(ClaimKey(c, InCell(b, r, c)))

LeftBlank(b, r, c) ==
    /\ <<r, c>> \in batches[b].blank_cells
    /\ InCell(b, r, c) = <<>>
    /\ OutCell(b, r, c) = <<>>

MarkedUnmapped(b, r, c) ==
    /\ <<r, c>> \in batches[b].fail_cells
    /\ InCell(b, r, c) # <<>>
    /\ OutCell(b, r, c) = <<>>

C5_HeaderOnce ==
    /\ out_exists <=> Written # {}
    /\ is_first_chunk <=> Written = {}
    /\ IF out_exists THEN HeaderFirstOnly(out_lines) ELSE out_lines = <<>>
    /\ nans_exists <=> (pc = "done" \/ \E b \in DOMAIN batches : batches[b].nans_count > 0)
    /\ is_first_unmapped_chunk <=> \A b \in DOMAIN batches : batches[b].nans_count = 0
    /\ IF nans_exists THEN HeaderFirstOnly(nans_lines) ELSE nans_lines = <<>>
    /\ nans_exists =>
          Len(nans_lines) = 1 + SumOf([b \in DOMAIN batches |-> batches[b].nans_count],
                                      DOMAIN batches)
    /\ \A b \in Written : batches[b].nans_count = 0 <=> batches[b].nans_from = 0

\* the run is over, two batches were written, and the report's header came
\* with the second one
C5_Witness ==
    /\ pc = "done"
    /\ \E a, b \in Written :
          /\ a < b
          /\ batches[a].nans_count = 0
          /\ batches[b].nans_count > 0
          /\ batches[b].nans_from = 2

\* C6: when the run is over and no batch had a non-empty unmapped set, the
\* report exists and holds the header line naming the identifier column and
\* nothing else.
C6_EmptyReport ==
    (pc = "done" /\ \A b \in DOMAIN batches : batches[b].nans_count = 0) =>
        /\ nans_exists
        /\ nans_lines = << [header |-> TRUE, cells |-> << id_column_data >>] >>

\* the run is over, a batch with rows was written and nothing was unmapped
C6_Witness ==
    /\ pc = "done"
    /\ \A b \in DOMAIN batches : batches[b].nans_count = 0
    /\ \E b \in Written : batches[b].rows # <<>>

\* C7: when the run is over, the primary output holds as many data lines as
\* the main data file has rows outside the skipped batches, and the written
\* batches' rows follow each other in the file without gap or overlap.
C7_RowCount ==
    pc = "done" =>
        /\ (IF out_exists THEN Len(out_lines) - 1 ELSE 0) =
              Len(main_data) - SumOf([b \in DOMAIN batches |-> Len(batches[b].rows)], Skipped)
        /\ \A b \in Written :
              batches[b].out_from =
                  2 + SumOf([a \in DOMAIN batches |-> Len(batches[a].rows)],
                            { a \in Written : a < b })

\* the run is over with two written batches although the mapping table has a
\* duplicate key
C7_Witness ==
    /\ pc = "done"
    /\ Cardinality(Written) >= 2
    /\ HasDuplicateKey
    /\ Len(main_data) >= 3

C9_SanitizeIdempotent ==
    pc \in {"loop", "done", "aborted"} =>
        /\ \A i \in DOMAIN all_data_cols : Sanitize(all_data_cols[i]) = all_data_cols[i]
        /\ id_column_data \in Range(all_data_cols)

\* the last lookup entry with a key
LastAvg(key) ==
    df_mapping_lookup[CHOOSE i \in DOMAIN df_mapping_lookup :
        /\ df_mapping_lookup[i].composite_key = key
        /\ \A k \in DOMAIN df_mapping_lookup :
              df_mapping_lookup[k].composite_key = key => k <= i].avg_value

\* C10: when the mapping table has a duplicate key the run still completes,
\* and every cell whose key is in the lookup index holds the average of the
\* last entry with that key.
C10_LastWriteWins ==
    HasDuplicateKey =>
        /\ pc # "aborted"
        /\ \A t \in TargetCells :
              LET key == ClaimKey(t[3], InCell(t[1], t[2], t[3])) IN
              (InCell(t[1], t[2], t[3]) # <<>> /\ AvgsOf(key) # {}) =>
                  OutCell(t[1], t[2], t[3]) = LastAvg(key)

\* positions of the mapping columns whose cleaned name passes each role's test,
\* for each mapping header of the inputs
RoleMatches ==
    [mc \in MapHeaders |->
        [amt_senf |-> { i \in DOMAIN mc : IsAmtSenf(Sanitize(mc[i])) },
         cat_no |-> { i \in DOMAIN mc : IsCatNo(Sanitize(mc[i])) },
         avg_value |-> { i \in DOMAIN mc : IsAvg(Sanitize(mc[i])) }]]

\* a role that no mapping column matches
RoleMissing ==
    LET m == RoleMatches[mapping_cols] IN
    m.amt_senf = {} \/ m.cat_no = {} \/ m.avg_value = {}

\* a role that several mapping columns match, or a column that matches
\* several roles
RoleAmbiguous ==
    LET m == RoleMatches[mapping_cols] IN
    \/ Cardinality(m.amt_senf) > 1
    \/ Cardinality(m.cat_no) > 1
    \/ Cardinality(m.avg_value) > 1
    \/ m.amt_senf \cap m.cat_no # {}
    \/ m.amt_senf \cap m.avg_value # {}
    \/ m.cat_no \cap m.avg_value # {}

NothingWritten ==
    /\ ~out_exists /\ out_lines = <<>>
    /\ ~nans_exists /\ nans_lines = <<>>
    /\ batches = <<>>

SetMin(S) == CHOOSE i \in S : \A k \in S : i <= k

\* C11 as stated: once the mapping is loaded, the run has stopped with the
\* configuration error, nothing written, exactly when a role is missing or
\* ambiguous.
C11_AbortsOnMissingOrAmbiguous ==
    pc # "step1" =>
        /\ (RoleMissing \/ RoleAmbiguous) <=> pc = "config_error"
        /\ pc = "config_error" => NothingWritten

\* C11 amended: once the mapping is loaded, the run has stopped with the
\* configuration error, nothing written, exactly when some role is matched by
\* no mapping column.  Ambiguity is not detected: otherwise the run proceeds
\* and every lookup entry is built from the first column, in table order, that
\* matches each role, even when several columns match the role or one column
\* matches two roles.
C11_AbortsOnMissing ==
    pc # "step1" =>
        /\ RoleMissing <=> pc = "config_error"
        /\ pc = "config_error" => NothingWritten /\ df_mapping_lookup = <<>>
        /\ pc # "config_error" =>
              LET m == RoleMatches[mapping_cols] IN
              /\ Len(df_mapping_lookup) = Len(df_mapping)
              /\ \A i \in DOMAIN df_mapping :
                    /\ df_mapping_lookup[i].composite_key =
                          df_mapping[i][SetMin(m.amt_senf)] \o <<"_">>
                              \o df_mapping[i][SetMin(m.cat_no)]
                    /\ df_mapping_lookup[i].avg_value = df_mapping[i][SetMin(m.avg_value)]

\* a run went on to its end with a mapping table of two average columns and
\* a lookup entry built from the first of them
C11_Witness ==
    /\ pc = "done"
    /\ Cardinality(RoleMatches[mapping_cols].avg_value) > 1
    /\ df_mapping_lookup # <<>>
    /\ out_exists

\* C13: every written batch is in the primary output under the columns of
\* the input (by their cleaned names), the identifier column first and the
\* others in the order of the input; every line of the batch has a cell for
\* each column, and the cells outside the target columns, the identifier
\* among them, are the cells read from the main data file.
C13_FrameKept ==
    \A b \in Written :
        LET hdr == out_lines[1].cells
            cols == batches[b].cols
        IN  /\ Len(hdr) = Len(cols)
            /\ Range(hdr) = Range(cols)
            /\ hdr[1] = id_column_data
            /\ \A i, k \in 2..Len(hdr) :
                  i < k => ColIndex(cols, hdr[i]) < ColIndex(cols, hdr[k])
            /\ \A r \in DOMAIN batches[b].rows :
                  /\ Len(out_lines[batches[b].out_from + r - 1].cells) = Len(cols)
                  /\ \A c \in Range(cols) \ TargetsOf(b) : OutCell(b, r, c) = InCell(b, r, c)

\* a row was written whose identifier column came last in the main data file
\* and whose target cell was replaced by a mapped value
C13_Witness ==
    \E b \in Written :
        /\ batches[b].cols[1] # id_column_data
        /\ batches[b].cols[Len(batches[b].cols)] = id_column_data
        /\ \E r \in DOMAIN batches[b].rows : \E c \in TargetsOf(b) :
              /\ InCell(b, r, c) # <<>>
              /\ OutCell(b, r, c) # <<>>
              /\ OutCell(b, r, c) # InCell(b, r, c)

\* C14: after the header probe the identifier column is the header column
\* named "id" if there is one, else the one named "head_id" if there is one,
\* else the first header column; every batch carries the header's columns, so
\* no batch is skipped.
C14_IdByPriority ==
    pc \in {"loop", "done", "aborted"} =>
        /\ id_column_data =
              IF ID_NAME \in Range(all_data_cols) THEN ID_NAME
              ELSE IF HEAD_ID_NAME \in Range(all_data_cols) THEN HEAD_ID_NAME
              ELSE all_data_cols[1]
        /\ \A b \in DOMAIN batches :
              batches[b].cols = all_data_cols => batches[b].status # "skipped"

\* sender code and category number of the i-th row of the mapping table
SenderOf(i) == df_mapping[i][SetMin(RoleMatches[mapping_cols].amt_senf)]

CatOf(i) == df_mapping[i][SetMin(RoleMatches[mapping_cols].cat_no)]

\* C15: a target cell of a written batch found an entry of the lookup index
\* only if some row of the mapping table has the cell's column name as its
\* sender code and the cell's value as its category number.
C15_HitsOwnEntry ==
    \A t \in TargetCells :
        <<t[2], t[3]>> \in batches[t[1]].hit_cells =>
            \E i \in DOMAIN df_mapping :
                SenderOf(i) = t[3] /\ CatOf(i) = InCell(t[1], t[2], t[3])

\* C16: a non-blank target cell of a written batch whose key is in the
\* lookup index is not among the cells of the failed lookups, whose rows'
\* identifiers go to the batch's unmapped set, whatever the key's average
\* value is.
C16_HitNotUnmapped ==
    \A t \in TargetCells :
        ( /\ InCell(t[1], t[2], t[3]) # <<>>
          /\ AvgsOf(ClaimKey(t[3], InCell(t[1], t[2], t[3]))) # {} ) =>
            /\ <<t[2], t[3]>> \in batches[t[1]].hit_cells
            /\ <<t[2], t[3]>> \notin batches[t[1]].fail_cells

\* the SQL script's exports are done
SqlExported == pc \in {"sql_cleanup", "sql_done"}

\* non-blank target cells of the main data file whose key no row of the
\* mapping table has
SqlMissCells ==
    { <<r, c>> \in (DOMAIN main_data) \X Range(amt_columns_header) :
        LET v == main_data[r][ColIndex(all_data_cols, c)] IN
        /\ v # <<>>
        /\ \A i \in DOMAIN df_mapping :
              SenderOf(i) \o <<"_">> \o CatOf(i) # ClaimKey(c, v) }

\* the cell of row r in column c of the SQL script's primary output
SqlOutCell(r, c) == out_lines[r + 1].cells[ColIndex(out_lines[1].cells, c)]

\* C12: when the SQL script has exported, every non-blank target cell whose
\* key has no row in the mapping table is blank in the primary output, and
\* its original value is in the unmapped report with the row's identifier and
\* the column's name.
C12_MissBlankedSql ==
    SqlExported =>
        \A t \in SqlMissCells :
            LET v == main_data[t[1]][ColIndex(all_data_cols, t[2])]
                id == main_data[t[1]][ColIndex(all_data_cols, id_column_data)]
            IN  /\ SqlOutCell(t[1], t[2]) = <<>>
                /\ \E k \in 2..Len(nans_lines) : nans_lines[k].cells = << id, v, t[2] >>

====
